---------------------------- MODULE Spec2Model ----------------------------
(***************************************************************************)
(* Model of driver/device-mapper/dmfs-table.c: the table file of dmfs.     *)
(* Closing a write-opened table file (dmfs_release) parses the file's      *)
(* pages (dmfs_parse, dmfs_parse_page, dmfs_copy, dmfs_parse_line) into a  *)
(* new dm_table and, on success, makes it the owner's active table.        *)
(*                                                                         *)
(* Bytes are one-character strings; NUL is the zero byte.  The page size,  *)
(* and the width of unsigned long / offset_t, are scaled down so that page *)
(* boundaries and wrap-around are within reach of short contents.          *)
(***************************************************************************)
EXTENDS Integers, Sequences, FiniteSets

\* log2 of the page size of the model (the kernel's PAGE_CACHE_SHIFT, scaled down)
PAGE_CACHE_SHIFT == 3

\* width in bits of unsigned long and of offset_t in the model (scaled down)
BITS_PER_LONG == 3

\* the largest number of newline-terminated lines of a content
MaxLines == 3

\* the same where several write-opened handles are closed
MaxLinesClose == 1

\* the largest number of chunks a byte stream is cut into for dmfs_parse_page
MaxChunks == 3

RECURSIVE Pow2(_)
Pow2(n) == IF n = 0 THEN 1 ELSE 2 * Pow2(n - 1)

PAGE_CACHE_SIZE == Pow2(PAGE_CACHE_SHIFT)

PAGE_SIZE == PAGE_CACHE_SIZE

\* unsigned long arithmetic wraps modulo 2^BITS_PER_LONG
ULONG(n) == n % Pow2(BITS_PER_LONG)

NULL == 0

NUL == "NUL"

NL == "\n"

\* a byte of the scratch page that was never written (__get_free_page does not clear)
GARBAGE == "?"

Procs == {1, 2}

(***************************************************************************)
(* The processes closing a handle of the one table file.                   *)
(***************************************************************************)
VARIABLES
    content,    \* the bytes of the file; inode->i_size = Len(content)
    pagecache,  \* page index -> "uptodate" | "stale" | "missing"
    sem,        \* dmi->sem: 1 free, 0 held
    dmi_table,  \* dmi->table: a table id, or NULL
    tables,     \* every dm_table created so far, by id
    pc,         \* per process: where it is in dmfs_release / dmfs_parse
    loc,        \* per process: the locals of dmfs_parse and dmfs_parse_page
    f_mode,     \* per process: whether its handle was opened for writing
    asm         \* the byte stream, cuts and line buffers of the assembler runs

vars == <<content, pagecache, sem, dmi_table, tables, pc, loc, f_mode, asm>>


(***************************************************************************)
(* Strings.  A char* is a record: nil for the null pointer, else the bytes *)
(* up to (not including) the terminating zero byte.                        *)
(***************************************************************************)
NoPtr == [nil |-> TRUE, s |-> <<>>]

Ptr(s) == [nil |-> FALSE, s |-> s]

\* the C string that starts at buf[1]: the bytes before the first zero byte
RECURSIVE CStr(_)
CStr(buf) ==
    IF buf = <<>> \/ Head(buf) = NUL THEN <<>>
    ELSE <<Head(buf)>> \o CStr(Tail(buf))

delim == {" ", "\t"}

\* strsep(p, delim): the token before the first delimiter, p moved behind it;
\* without a delimiter the whole rest, and p becomes null
RECURSIVE FirstDelim(_, _)
FirstDelim(s, i) ==
    IF i > Len(s) THEN 0
    ELSE IF s[i] \in delim THEN i
    ELSE FirstDelim(s, i + 1)

strsep(p) ==
    IF p.nil THEN [r |-> NoPtr, p |-> NoPtr]
    ELSE LET i == FirstDelim(p.s, 1)
         IN  IF i = 0 THEN [r |-> Ptr(p.s), p |-> NoPtr]
             ELSE [r |-> Ptr(SubSeq(p.s, 1, i - 1)),
                   p |-> Ptr(SubSeq(p.s, i + 1, Len(p.s)))]

\* do { r = strsep(p, delim); } while (r && *r == 0);
RECURSIVE next_token(_)
next_token(p) ==
    LET x == strsep(p)
    IN  IF ~x.r.nil /\ x.r.s = <<>> THEN next_token(x.p) ELSE x

Digit == {"0", "1", "2", "3", "4", "5", "6", "7", "8", "9"}

DigitVal(c) ==
    CASE c = "0" -> 0 [] c = "1" -> 1 [] c = "2" -> 2 [] c = "3" -> 3
      [] c = "4" -> 4 [] c = "5" -> 5 [] c = "6" -> 6 [] c = "7" -> 7
      [] c = "8" -> 8 [] c = "9" -> 9

\* simple_strtoul(tok, NULL, 10): the leading decimal digits, wrapping; no digit gives 0
RECURSIVE strtoul_from(_, _)
strtoul_from(s, result) ==
    IF s = <<>> \/ Head(s) \notin Digit THEN result
    ELSE strtoul_from(Tail(s), ULONG(result * 10 + DigitVal(Head(s))))

simple_strtoul(tok) == strtoul_from(tok, 0)

(***************************************************************************)
(* The table under construction (struct dm_table) and the collaborators    *)
(* declared in dm.h.  highs and num_targets are the table's fields; the    *)
(* other fields record what the collaborators were asked to do.            *)
(***************************************************************************)
\* names the target-type registry resolves
Registered == {<<"a">>}

\* dm_get_target_type(tok): the handle (here the name), or no handle
dm_get_target_type(tok) == IF tok \in Registered THEN Ptr(tok) ELSE NoPtr

dm_create_table ==
    [highs  |-> <<>>,      \* t->highs[0 .. num_targets - 1]
     starts |-> <<>>,      \* the start each target was constructed with
     types  |-> <<>>,      \* the target type of each target
     errors |-> <<>>,      \* what dmfs_add_error recorded
     lines  |-> <<>>,      \* the (num, str) of every dmfs_parse_line call
     nget   |-> 0,         \* handles dm_get_target_type gave out
     nput   |-> 0,         \* dm_put_target_type calls
     nctr   |-> 0,         \* constructor calls
     nctx   |-> 0,         \* constructor calls that returned 0
     ndtr   |-> 0,         \* destructor calls
     state  |-> "building"]

num_targets(t) == Len(t.highs)

dmfs_add_error(t, num, msg) ==
    [t EXCEPT !.errors = Append(@, [num |-> num, msg |-> msg])]

\* dm_table_add_target on success: one more target, its high key recorded
dm_table_add_target(t, start, high, ttype) ==
    [t EXCEPT !.highs = Append(@, high),
              !.starts = Append(@, start),
              !.types = Append(@, ttype)]

\* dm_table_complete(t) == 0: at least one target and no recorded error
dm_table_complete(t) == num_targets(t) > 0 /\ t.errors = <<>>

\* dm_put_table: the table is discarded, every context it owns destructed
dm_put_table(t) ==
    [t EXCEPT !.ndtr = @ + num_targets(t), !.state = "discarded"]

\* as start_of_next_range, but the last high itself
start_of_next_range_nosucc(t) ==
    IF num_targets(t) # 0 THEN t.highs[num_targets(t)] ELSE 0

start_of_next_range(t) ==
    IF num_targets(t) # 0 THEN ULONG(t.highs[num_targets(t)] + 1) ELSE 0

(***************************************************************************)
(* dmfs_parse_line.  ctr_rv is what the constructor returns and add_rv     *)
(* what dm_table_add_target returns, should they be called.                *)
(***************************************************************************)
\* as parse_line_target, but the handle is put although none was given out
parse_line_target_putnull(t, num, start, size, tok, ctr_rv, add_rv) ==
    LET ttype == dm_get_target_type(tok)
        high  == ULONG(start + (size - 1))
    IN  IF ttype.nil
        THEN dmfs_add_error([t EXCEPT !.nput = @ + 1], num, "Target type unknown")
        ELSE LET t1 == [t EXCEPT !.nget = @ + 1, !.nctr = @ + 1]
             IN  IF ctr_rv # 0
                 THEN dmfs_add_error([t1 EXCEPT !.nput = @ + 1], num,
                          "This message should never appear (constructor error)")
                 ELSE IF add_rv = 0
                 THEN dm_table_add_target([t1 EXCEPT !.nctx = @ + 1],
                                          start, high, ttype.s)
                 ELSE dmfs_add_error(
                          [t1 EXCEPT !.nctx = @ + 1, !.ndtr = @ + 1, !.nput = @ + 1],
                          num, "Error adding target to table")

\* as parse_line_target, but the handle is kept when the constructor fails
parse_line_target_noput(t, num, start, size, tok, ctr_rv, add_rv) ==
    LET ttype == dm_get_target_type(tok)
        high  == ULONG(start + (size - 1))
    IN  IF ttype.nil
        THEN dmfs_add_error(t, num, "Target type unknown")
        ELSE LET t1 == [t EXCEPT !.nget = @ + 1, !.nctr = @ + 1]
             IN  IF ctr_rv # 0
                 THEN dmfs_add_error(t1, num,
                          "This message should never appear (constructor error)")
                 ELSE IF add_rv = 0
                 THEN dm_table_add_target([t1 EXCEPT !.nctx = @ + 1],
                                          start, high, ttype.s)
                 ELSE dmfs_add_error(
                          [t1 EXCEPT !.nctx = @ + 1, !.ndtr = @ + 1, !.nput = @ + 1],
                          num, "Error adding target to table")

\* as parse_line_target, but without the destructor call when the append fails
parse_line_target_nodtr(t, num, start, size, tok, ctr_rv, add_rv) ==
    LET ttype == dm_get_target_type(tok)
        high  == ULONG(start + (size - 1))
    IN  IF ttype.nil
        THEN dmfs_add_error(t, num, "Target type unknown")
        ELSE LET t1 == [t EXCEPT !.nget = @ + 1, !.nctr = @ + 1]
             IN  IF ctr_rv # 0
                 THEN dmfs_add_error([t1 EXCEPT !.nput = @ + 1], num,
                          "This message should never appear (constructor error)")
                 ELSE IF add_rv = 0
                 THEN dm_table_add_target([t1 EXCEPT !.nctx = @ + 1],
                                          start, high, ttype.s)
                 ELSE dmfs_add_error(
                          [t1 EXCEPT !.nctx = @ + 1, !.nput = @ + 1],
                          num, "Error adding target to table")

\* lines 79-94: resolve the type, construct, add; on failure undo and report
parse_line_target(t, num, start, size, tok, ctr_rv, add_rv) ==
    LET ttype == dm_get_target_type(tok)
        high  == ULONG(start + (size - 1))
    IN  IF ttype.nil
        THEN dmfs_add_error(t, num, "Target type unknown")
        ELSE LET t1 == [t EXCEPT !.nget = @ + 1, !.nctr = @ + 1]
             IN  IF ctr_rv # 0
                 THEN dmfs_add_error([t1 EXCEPT !.nput = @ + 1], num,
                          "This message should never appear (constructor error)")
                 ELSE IF add_rv = 0
                 THEN dm_table_add_target([t1 EXCEPT !.nctx = @ + 1],
                                          start, high, ttype.s)
                 ELSE dmfs_add_error(
                          [t1 EXCEPT !.nctx = @ + 1, !.ndtr = @ + 1, !.nput = @ + 1],
                          num, "Error adding target to table")

\* as parse_line_tokens, but without the comparison with start_of_next_range
parse_line_tokens_nogap(t, num, str, ctr_rv, add_rv) ==
    LET x1 == next_token(Ptr(str))
        x2 == next_token(x1.p)
        x3 == next_token(x2.p)
        start == simple_strtoul(x1.r.s)
        size  == simple_strtoul(x2.r.s)
    IN  IF x1.r.nil THEN dmfs_add_error(t, num, "No start argument")
        ELSE IF x2.r.nil THEN dmfs_add_error(t, num, "No size argument")
        ELSE IF x3.r.nil THEN dmfs_add_error(t, num, "No target type")
        ELSE parse_line_target(t, num, start, size, x3.r.s, ctr_rv, add_rv)

\* as parse_line_tokens, but the type token is looked for before the gap check
parse_line_tokens_typefirst(t, num, str, ctr_rv, add_rv) ==
    LET x1 == next_token(Ptr(str))
        x2 == next_token(x1.p)
        x3 == next_token(x2.p)
        start == simple_strtoul(x1.r.s)
        size  == simple_strtoul(x2.r.s)
    IN  IF x1.r.nil THEN dmfs_add_error(t, num, "No start argument")
        ELSE IF x2.r.nil THEN dmfs_add_error(t, num, "No size argument")
        ELSE IF x3.r.nil THEN dmfs_add_error(t, num, "No target type")
        ELSE IF start # start_of_next_range(t)
             THEN dmfs_add_error(t, num, "Gap in table")
        ELSE parse_line_target(t, num, start, size, x3.r.s, ctr_rv, add_rv)

\* lines 58-77: the start, size and type tokens and the gap check
parse_line_tokens(t, num, str, ctr_rv, add_rv) ==
    LET x1 == next_token(Ptr(str))
        x2 == next_token(x1.p)
        x3 == next_token(x2.p)
        start == simple_strtoul(x1.r.s)
        size  == simple_strtoul(x2.r.s)
    IN  IF x1.r.nil THEN dmfs_add_error(t, num, "No start argument")
        ELSE IF x2.r.nil THEN dmfs_add_error(t, num, "No size argument")
        ELSE IF start # start_of_next_range(t)
             THEN dmfs_add_error(t, num, "Gap in table")
        ELSE IF x3.r.nil THEN dmfs_add_error(t, num, "No target type")
        ELSE parse_line_target(t, num, start, size, x3.r.s, ctr_rv, add_rv)

dmfs_parse_line(t, num, str, ctr_rv, add_rv) ==
    parse_line_tokens([t EXCEPT !.lines = Append(@, [num |-> num, str |-> str])],
                      num, str, ctr_rv, add_rv)

(***************************************************************************)
(* dmfs_copy and one pass of the loop of dmfs_parse_page.  tmp is the      *)
(* scratch page (the line buffer), indexed from 1; tmpl the fill position. *)
(***************************************************************************)
\* while (dstlen && srclen): copy a byte to tmp[d]; a newline ends the copy,
\* sets the flag and is replaced by the terminator
RECURSIVE copy_loop(_, _, _, _, _)
copy_loop(tmp, d, dstlen, src, copied) ==
    IF dstlen = 0 \/ src = <<>>
    THEN [tmp |-> tmp, copied |-> copied, flag |-> 0]
    ELSE IF Head(src) = NL
    THEN [tmp |-> [tmp EXCEPT ![d] = NUL], copied |-> copied + 1, flag |-> 1]
    ELSE copy_loop([tmp EXCEPT ![d] = Head(src)], d + 1, dstlen - 1,
                   Tail(src), copied + 1)

\* dmfs_copy(tmp + tmpl, dstlen, src, srclen, &flag)
dmfs_copy(tmp, tmpl, dstlen, src) == copy_loop(tmp, tmpl + 1, dstlen, src, 0)

\* if (*tmpl + copied == PAGE_SIZE - 1) goto line_too_long;
line_too_long(tmpl, copied) == tmpl + copied = PAGE_SIZE - 1

\* *tmpl = copied;
fill_after_copy(tmpl, copied) == copied

\* one pass of do { ... } while (len > 0), up to the call of dmfs_parse_line
parse_page_pass(tmp, tmpl, buf) ==
    LET c == dmfs_copy(tmp, tmpl, PAGE_SIZE - tmpl - 1, buf)
    IN  [tmp      |-> c.tmp,
         copied   |-> c.copied,
         too_long |-> line_too_long(tmpl, c.copied),
         flag     |-> c.flag,
         tmpl     |-> IF c.flag = 1 THEN 0 ELSE fill_after_copy(tmpl, c.copied)]

\* dmfs_parse_page(t, buf, len, tmp, &tmpl, &num) on a line buffer b: the
\* lines it hands to dmfs_parse_line, the error it records, what it returns
RECURSIVE dmfs_parse_page(_, _)
dmfs_parse_page(b, buf) ==
    LET r == parse_page_pass(b.tmp, b.tmpl, buf)
        rest == SubSeq(buf, r.copied + 1, Len(buf))
        b1 == IF r.flag = 1
              THEN [b EXCEPT !.tmp = r.tmp, !.tmpl = 0, !.num = b.num + 1,
                             !.lines = Append(@, [num |-> b.num, str |-> CStr(r.tmp)])]
              ELSE [b EXCEPT !.tmp = r.tmp, !.tmpl = r.tmpl]
    IN  IF r.too_long
        THEN [b EXCEPT !.tmp = r.tmp, !.rv = -1,
                       !.errors = Append(@, [num |-> b.num, msg |-> "Line too long"])]
        ELSE IF Len(rest) > 0 THEN dmfs_parse_page(b1, rest)
        ELSE [b1 EXCEPT !.rv = 0]

(***************************************************************************)
(* The file: its bytes and its pages in the page cache.                    *)
(***************************************************************************)
i_size == Len(content)

\* number of pages that hold bytes of the file
NPages(len) == (len + PAGE_CACHE_SIZE - 1) \div PAGE_CACHE_SIZE

PageIndexes == 0 .. (Pow2(BITS_PER_LONG) - 1)

\* byte k (from 1) of page index: the file's byte, zero behind the end of the file
PageByte(index, k) ==
    LET pos == index * PAGE_CACHE_SIZE + k
    IN  IF pos <= Len(content) THEN content[pos] ELSE NUL

\* the bytes kaddr[from], ..., kaddr[to - 1] (from 0) of the mapped page
PageBytes(index, from, to) == [k \in 1 .. (to - from) |-> PageByte(index, from + k)]

\* well-shaped lines (without their newline): start, size and a registered type
PlainLines ==
    { <<"0", " ", "1", " ", "a">>,        \* [0,0]
      <<"1", "\t", "1", " ", "a">>,       \* [1,1], a tab after the start
      <<"2", " ", "1", " ", "a">> }       \* [2,2]

\* lines that are special in some way
OddLines ==
    { <<"0", " ", "1", " ", "b">>,        \* type b is not registered
      <<"0", " ", "0", " ", "a">>,        \* size 0
      <<"0", " ", "1">>,                  \* no target type
      <<"0">>,                            \* no size
      <<>>,                               \* blank line
      <<"0", " ", "1", " ", "a", " ">>,   \* PAGE_SIZE - 1 bytes with its newline
      <<"0", " ", "1", " ", "a", " ", "x", "y">> }  \* longer than a page

\* an unterminated rest behind the last newline
Tails == { <<>>, <<"1", " ">> }

RECURSIVE JoinLines(_)
JoinLines(ls) ==
    IF ls = <<>> THEN <<>> ELSE Head(ls) \o <<NL>> \o JoinLines(Tail(ls))

\* the contents of up to n lines: at most one odd line among plain ones
LineSeqs(n) ==
    UNION { { ls \in [1 .. k -> PlainLines \cup OddLines] :
                Cardinality({ i \in 1 .. k : ls[i] \in OddLines }) <= 1 } :
            k \in 0 .. n }

Contents(n) == { JoinLines(ls) \o tl : ls \in LineSeqs(n), tl \in Tails }

\* a page that was never written: dmfs_readpage and dmfs_prepare_write fill it
\* with zero bytes and mark it up to date
ZeroPage == [k \in 1 .. PAGE_CACHE_SIZE |-> NUL]

\* contents with such a page: before a page that holds a line, and behind one
SparseContents ==
    { ZeroPage \o <<"0", " ", "1", " ", "a", NL, NUL, NUL>>,
      <<"0", " ", "1", " ", "a", NL, NUL, NUL>> \o ZeroPage }

\* page cache states: every page of the file up to date, or one of them
\* missing or not up to date; no page behind the end of the file
PageCaches(len) ==
    LET good == [i \in PageIndexes |-> IF i < NPages(len) THEN "uptodate" ELSE "missing"]
    IN  {good} \cup { [good EXCEPT ![i] = st] :
                        i \in 0 .. (NPages(len) - 1), st \in {"missing", "stale"} }

\* fed is not a local of the code: it lists the (index, len) of the chunks
\* handed to dmfs_parse_page so far
InitLoc ==
    [index |-> 0, end_index |-> 0, end_offset |-> 0, rem |-> 0, num |-> 0,
     tmp |-> <<>>, t |-> NULL, pg |-> "none", end |-> 0, len |-> 0, table |-> NULL,
     fed |-> <<>>]

\* a line buffer before the first chunk: the scratch page, the fill position,
\* the line number, and what dmfs_parse_page has done with them so far
InitBuffer ==
    [tmp |-> [k \in 1 .. PAGE_SIZE |-> GARBAGE], tmpl |-> 0, num |-> 0,
     lines |-> <<>>, errors |-> <<>>, rv |-> 0]

InitAsm == [on |-> FALSE, stream |-> <<>>, chunks |-> <<>>, fed |-> 0,
            cut |-> InitBuffer, whole |-> InitBuffer, whole_fed |-> FALSE]

\* what is the same at the start of every run
InitRest ==
    /\ pagecache \in PageCaches(Len(content))
    /\ sem = 1
    /\ dmi_table = NULL
    /\ tables = <<>>
    /\ pc = [p \in Procs |-> "idle"]
    /\ loc = [p \in Procs |-> InitLoc]
    /\ asm = InitAsm

\* one handle opened for writing and one opened for reading are closed
Init ==
    /\ content \in Contents(MaxLines) \cup SparseContents
    /\ f_mode = [p \in Procs |-> IF p = 1 THEN "w" ELSE "r"]
    /\ InitRest

\* handles opened in any mode are closed, on shorter contents
InitClose ==
    /\ content \in Contents(MaxLinesClose)
    /\ f_mode \in [Procs -> {"r", "w"}]
    /\ InitRest

(***************************************************************************)
(* dmfs_release and dmfs_parse, step by step.                              *)
(***************************************************************************)
\* if (!(f->f_mode & S_IWUGO)) return 0;
Release(p) ==
    /\ pc[p] = "idle"
    /\ pc' = [pc EXCEPT ![p] = IF f_mode[p] = "w" THEN "down" ELSE "done"]
    /\ UNCHANGED <<content, pagecache, sem, dmi_table, tables, loc, f_mode, asm>>

\* down(&dmi->sem)
Down(p) ==
    /\ pc[p] = "down"
    /\ sem > 0
    /\ sem' = sem - 1
    /\ pc' = [pc EXCEPT ![p] = "parse"]
    /\ UNCHANGED <<content, pagecache, dmi_table, tables, loc, f_mode, asm>>

\* dmfs_parse up to its loop: empty file, the scratch page, the new table
ParseEnter(p) ==
    /\ pc[p] = "parse"
    /\ \/ /\ i_size = 0 
          /\ pc' = [pc EXCEPT ![p] = "parsed"]
          /\ UNCHANGED <<tables, loc>>
       \/ /\ i_size # 0
          /\ \E alloc \in {"no page", "no table"} :
                /\ pc' = [pc EXCEPT ![p] = "parsed"]
                /\ UNCHANGED <<tables, loc>>
       \/ /\ i_size # 0
          /\ tables' = Append(tables, dm_create_table)
          /\ loc' = [loc EXCEPT ![p] =
                [InitLoc EXCEPT
                    !.t = Len(tables) + 1,
                    !.tmp = [k \in 1 .. PAGE_SIZE |-> GARBAGE],
                    !.end_index = i_size \div PAGE_CACHE_SIZE,
                    !.end_offset = i_size % PAGE_CACHE_SIZE]]
          /\ pc' = [pc EXCEPT ![p] = "find"]
    /\ UNCHANGED <<content, pagecache, sem, dmi_table, f_mode, asm>>

\* the head of the loop: the chunk length, the page lookup, Page_Uptodate;
\* an up-to-date page is mapped and handed to dmfs_parse_page
FindPage(p) ==
    LET l == loc[p]
        end == IF l.index = l.end_index THEN l.end_offset ELSE PAGE_CACHE_SIZE
        pg == pagecache[l.index]
    IN  /\ pc[p] = "find"
        /\ loc' = [loc EXCEPT ![p] =
                [l EXCEPT !.pg = pg, !.end = end, !.len = end,
                          !.fed = IF pg = "uptodate"
                                  THEN Append(@, [index |-> l.index, len |-> end])
                                  ELSE @]]
        /\ pc' = [pc EXCEPT ![p] =
                    CASE pg = "uptodate" -> "page"
                      [] pg = "stale" -> "broken"
                      [] pg = "missing" -> "put"]
        /\ UNCHANGED <<content, pagecache, sem, dmi_table, tables, f_mode, asm>>

\* one pass of the loop of dmfs_parse_page on the mapped page, and its return
ParsePage(p) ==
    LET l == loc[p]
        buf == PageBytes(l.index, l.end - l.len, l.end)
        r == parse_page_pass(l.tmp, l.rem, buf)
        len == l.len - r.copied
    IN  /\ pc[p] = "page"
        /\ \/ /\ r.too_long
              /\ tables' = [tables EXCEPT ![l.t] = dmfs_add_error(@, l.num, "Line too long")]
              /\ loc' = [loc EXCEPT ![p] = [l EXCEPT !.tmp = r.tmp, !.len = len]]
              /\ pc' = [pc EXCEPT ![p] = "parse_error"]
           \/ /\ ~r.too_long
              /\ r.flag = 1
              /\ \E ctr_rv \in {0, -1}, add_rv \in {0, -1} :
                    tables' = [tables EXCEPT ![l.t] =
                        dmfs_parse_line(@, l.num, CStr(r.tmp), ctr_rv, add_rv)]
              /\ loc' = [loc EXCEPT ![p] =
                    [l EXCEPT !.tmp = r.tmp, !.len = len, !.rem = 0, !.num = l.num + 1]]
              /\ pc' = [pc EXCEPT ![p] = IF len > 0 THEN "page" ELSE "put"]
           \/ /\ ~r.too_long
              /\ r.flag = 0
              /\ loc' = [loc EXCEPT ![p] = [l EXCEPT !.tmp = r.tmp, !.len = len, !.rem = r.tmpl]]
              /\ pc' = [pc EXCEPT ![p] = IF len > 0 THEN "page" ELSE "put"]
              /\ UNCHANGED tables
        /\ UNCHANGED <<content, pagecache, sem, dmi_table, f_mode, asm>>

\* page_cache_release(pg); index++; while (index != end_index).  The call is
\* made for a page that was not found too: releasing the null page either
\* goes unnoticed or ends the process where it stands.
PutPage(p) ==
    LET l == loc[p]
        index == ULONG(l.index + 1)
    IN  /\ pc[p] = "put"
        /\ \/ /\ loc' = [loc EXCEPT ![p] = [l EXCEPT !.index = index, !.pg = "none"]]
              /\ pc' = [pc EXCEPT ![p] = IF index # l.end_index THEN "find" ELSE "finish"]
           \/ /\ l.pg = "missing"
              /\ pc' = [pc EXCEPT ![p] = "oops"]
              /\ UNCHANGED loc
        /\ UNCHANGED <<content, pagecache, sem, dmi_table, tables, f_mode, asm>>

\* as Finish, but an incomplete table is dropped without dm_put_table
Finish_leak(p) ==
    LET l == loc[p]
    IN  /\ pc[p] = "finish"
        /\ IF dm_table_complete(tables[l.t])
           THEN /\ tables' = [tables EXCEPT ![l.t].state = "complete"]
                /\ loc' = [loc EXCEPT ![p] = [l EXCEPT !.table = l.t]]
           ELSE /\ tables' = tables
                /\ loc' = [loc EXCEPT ![p] = [l EXCEPT !.table = NULL]]
        /\ pc' = [pc EXCEPT ![p] = "parsed"]
        /\ UNCHANGED <<content, pagecache, sem, dmi_table, f_mode, asm>>

\* after the loop: free_page; the table if dm_table_complete, else discard it
Finish(p) ==
    LET l == loc[p]
    IN  /\ pc[p] = "finish"
        /\ IF dm_table_complete(tables[l.t])
           THEN /\ tables' = [tables EXCEPT ![l.t].state = "complete"]
                /\ loc' = [loc EXCEPT ![p] = [l EXCEPT !.table = l.t]]
           ELSE /\ tables' = [tables EXCEPT ![l.t] = dm_put_table(@)]
                /\ loc' = [loc EXCEPT ![p] = [l EXCEPT !.table = NULL]]
        /\ pc' = [pc EXCEPT ![p] = "parsed"]
        /\ UNCHANGED <<content, pagecache, sem, dmi_table, f_mode, asm>>

\* as Abort, but the table being built is returned as it is
Abort_keep(p) ==
    LET l == loc[p]
    IN  /\ pc[p] \in {"broken", "parse_error"}
        /\ loc' = [loc EXCEPT ![p] = [l EXCEPT !.table = l.t]]
        /\ pc' = [pc EXCEPT ![p] = "parsed"]
        /\ UNCHANGED <<content, pagecache, sem, dmi_table, tables, f_mode, asm>>

\* broken: and parse_error: free_page; dm_put_table(t); return NULL
Abort(p) ==
    LET l == loc[p]
    IN  /\ pc[p] \in {"broken", "parse_error"}
        /\ tables' = [tables EXCEPT ![l.t] = dm_put_table(@)]
        /\ loc' = [loc EXCEPT ![p] = [l EXCEPT !.table = NULL]]
        /\ pc' = [pc EXCEPT ![p] = "parsed"]
        /\ UNCHANGED <<content, pagecache, sem, dmi_table, f_mode, asm>>

\* as PutOld, but without the test of table
PutOld_always(p) ==
    /\ pc[p] = "parsed"
    /\ tables' = IF dmi_table # NULL
                 THEN [tables EXCEPT ![dmi_table] = dm_put_table(@)]
                 ELSE tables
    /\ pc' = [pc EXCEPT ![p] = "set"]
    /\ UNCHANGED <<content, pagecache, sem, dmi_table, loc, f_mode, asm>>

\* if (table) { if (dmi->table) dm_put_table(dmi->table); ...
PutOld(p) ==
    /\ pc[p] = "parsed"
    /\ IF loc[p].table # NULL
       THEN /\ tables' = IF dmi_table # NULL
                         THEN [tables EXCEPT ![dmi_table] = dm_put_table(@)]
                         ELSE tables
            /\ pc' = [pc EXCEPT ![p] = "set"]
       ELSE /\ pc' = [pc EXCEPT ![p] = "up"]
            /\ UNCHANGED tables
    /\ UNCHANGED <<content, pagecache, sem, dmi_table, loc, f_mode, asm>>

\* ... dmi->table = table; }
SetTable(p) ==
    /\ pc[p] = "set"
    /\ dmi_table' = loc[p].table
    /\ pc' = [pc EXCEPT ![p] = "up"]
    /\ UNCHANGED <<content, pagecache, sem, tables, loc, f_mode, asm>>

\* up(&dmi->sem); return 0;
Up(p) ==
    /\ pc[p] = "up"
    /\ sem' = sem + 1
    /\ loc' = [loc EXCEPT ![p] = InitLoc]
    /\ pc' = [pc EXCEPT ![p] = "done"]
    /\ UNCHANGED <<content, pagecache, dmi_table, tables, f_mode, asm>>

Next ==
    \E p \in Procs :
        \/ Release(p)
        \/ Down(p)
        \/ ParseEnter(p)
        \/ FindPage(p)
        \/ ParsePage(p)
        \/ PutPage(p)
        \/ Finish(p)
        \/ Abort(p)
        \/ PutOld(p)
        \/ SetTable(p)
        \/ Up(p)

Spec == Init /\ [][Next]_vars

SpecClose == InitClose /\ [][Next]_vars

(***************************************************************************)
(* dmfs_parse_page on its own: one byte stream is fed to one line buffer   *)
(* in consecutive non-empty chunks, and to another line buffer as a single *)
(* chunk.  As in dmfs_parse, no chunk is fed after a failure.              *)
(***************************************************************************)
\* the ways of cutting n bytes into k non-empty consecutive chunks (their lengths)
RECURSIVE Cuts(_, _)
Cuts(n, k) ==
    IF k = 1 THEN IF n >= 1 THEN {<<n>>} ELSE {}
    ELSE UNION { { <<first>> \o c : c \in Cuts(n - first, k - 1) } :
                 first \in 1 .. (n - k + 1) }

RECURSIVE Sum(_)
Sum(lens) == IF lens = <<>> THEN 0 ELSE Head(lens) + Sum(Tail(lens))

InitPage ==
    /\ content = <<>>
    /\ pagecache = [i \in PageIndexes |-> "missing"]
    /\ sem = 1
    /\ dmi_table = NULL
    /\ tables = <<>>
    /\ pc = [p \in Procs |-> "idle"]
    /\ loc = [p \in Procs |-> InitLoc]
    /\ f_mode = [p \in Procs |-> "r"]
    /\ \E stream \in Contents(MaxLinesClose) \ {<<>>} :
       \E k \in 2 .. MaxChunks :
       \E chunks \in Cuts(Len(stream), k) :
            asm = [InitAsm EXCEPT !.on = TRUE, !.stream = stream, !.chunks = chunks]

\* the next chunk of the cut goes to the first line buffer
FeedChunk ==
    LET from == Sum(SubSeq(asm.chunks, 1, asm.fed))
        len == asm.chunks[asm.fed + 1]
    IN  /\ asm.on
        /\ asm.fed < Len(asm.chunks)
        /\ asm.cut.rv = 0
        /\ asm' = [asm EXCEPT
                    !.fed = @ + 1,
                    !.cut = dmfs_parse_page(@, SubSeq(asm.stream, from + 1, from + len))]
        /\ UNCHANGED <<content, pagecache, sem, dmi_table, tables, pc, loc, f_mode>>

\* the whole stream goes to the second line buffer as one chunk
FeedWhole ==
    /\ asm.on
    /\ ~asm.whole_fed
    /\ asm' = [asm EXCEPT !.whole_fed = TRUE,
                          !.whole = dmfs_parse_page(@, asm.stream)]
    /\ UNCHANGED <<content, pagecache, sem, dmi_table, tables, pc, loc, f_mode>>

NextPage == FeedChunk \/ FeedWhole

SpecPage == InitPage /\ [][NextPage]_vars

(***************************************************************************)
(* dmfs_parse as a function of the file's bytes, for a file whose pages    *)
(* are all in the page cache and up to date, a scratch page and a table    *)
(* that could be allocated, and constructors and appends that succeed.     *)
(***************************************************************************)
\* the bytes kaddr[0 .. end - 1] of page index of a file of these bytes
ChunkOf(bytes, index, end) ==
    [k \in 1 .. end |->
        IF index * PAGE_CACHE_SIZE + k <= Len(bytes)
        THEN bytes[index * PAGE_CACHE_SIZE + k] ELSE NUL]

\* do { ... index++; } while (index != end_index) from index on: what
\* dmfs_parse_page does to the line buffer b, chunk after chunk
RECURSIVE parse_loop(_, _, _)
parse_loop(bytes, index, b) ==
    LET end_index == Len(bytes) \div PAGE_CACHE_SIZE
        end_offset == Len(bytes) % PAGE_CACHE_SIZE
        end == IF index = end_index THEN end_offset ELSE PAGE_CACHE_SIZE
        pg == index < NPages(Len(bytes))
        b1 == IF pg THEN dmfs_parse_page(b, ChunkOf(bytes, index, end)) ELSE b
        next == ULONG(index + 1)
    IN  IF pg /\ b1.rv # 0 THEN b1
        ELSE IF next # end_index THEN parse_loop(bytes, next, b1)
        ELSE b1

\* the calls of dmfs_parse_line for the lines dmfs_parse_page hands over
RECURSIVE parse_lines(_, _)
parse_lines(t, lines) ==
    IF lines = <<>> THEN t
    ELSE parse_lines(dmfs_parse_line(t, Head(lines).num, Head(lines).str, 0, 0),
                     Tail(lines))

\* the table dmfs_parse builds, and whether it returns it
dmfs_parse(bytes) ==
    IF Len(bytes) = 0 THEN [t |-> dm_create_table, returned |-> FALSE]
    ELSE LET b == parse_loop(bytes, 0, InitBuffer)
             t == parse_lines(dm_create_table, b.lines)
             t1 == [t EXCEPT !.errors = @ \o b.errors]
         IN  [t |-> t1, returned |-> b.rv = 0 /\ dm_table_complete(t1)]

(***************************************************************************)
(* What the properties below speak about.                                  *)
(***************************************************************************)
TableIds == 1 .. Len(tables)

Msgs(t) == { t.errors[i].msg : i \in 1 .. Len(t.errors) }

\* the process ended inside dmfs_parse and will never return from it
Crashed(p) == pc[p] = "oops"

\* dmfs_parse has returned to dmfs_release, which has not returned yet
Returned(p) == pc[p] \in {"parsed", "set", "up"}

\* every page of the file is in the page cache and up to date
AllPagesUptodate ==
    \A i \in PageIndexes : i < NPages(i_size) => pagecache[i] = "uptodate"

\* the newline-terminated lines of a byte sequence, and the rest behind them
RECURSIVE SplitLines(_, _, _)
SplitLines(bytes, cur, done) ==
    IF bytes = <<>> THEN [lines |-> done, rest |-> cur]
    ELSE IF Head(bytes) = NL THEN SplitLines(Tail(bytes), <<>>, Append(done, cur))
    ELSE SplitLines(Tail(bytes), Append(cur, Head(bytes)), done)

ContentLines == SplitLines(content, <<>>, <<>>)

\* the fields of a line, as the grammar <start> <size> <target_type> reads them
Field(str, k) ==
    LET x1 == next_token(Ptr(str))
        x2 == next_token(x1.p)
        x3 == next_token(x2.p)
    IN  CASE k = 1 -> x1.r [] k = 2 -> x2.r [] k = 3 -> x3.r

\* the start the next range must have, from the ranges added so far
ExpectedStart(t) ==
    IF t.highs = <<>> THEN 0 ELSE (t.highs[Len(t.highs)] + 1) % Pow2(BITS_PER_LONG)

\* lines ls continue a table at offset expect: each has a start equal to the
\* running offset, a size of at least 1 that stays in range, a registered type
RECURSIVE Contiguous(_, _)
Contiguous(ls, expect) ==
    \/ ls = <<>>
    \/ LET f1 == Field(Head(ls), 1)
           f2 == Field(Head(ls), 2)
           f3 == Field(Head(ls), 3)
       IN  /\ ~f1.nil /\ ~f2.nil /\ ~f3.nil
           /\ f3.s \in Registered
           /\ f1.s \in Seq(Digit) /\ f2.s \in Seq(Digit)
           /\ simple_strtoul(f1.s) = expect
           /\ simple_strtoul(f2.s) >= 1
           /\ expect + simple_strtoul(f2.s) <= Pow2(BITS_PER_LONG)
           /\ Contiguous(Tail(ls), expect + simple_strtoul(f2.s))

RECURSIVE RangesOf(_)
RangesOf(ls) ==
    IF ls = <<>> THEN <<>>
    ELSE <<[start |-> simple_strtoul(Field(Head(ls), 1).s),
            high  |-> simple_strtoul(Field(Head(ls), 1).s)
                        + simple_strtoul(Field(Head(ls), 2).s) - 1]>>
         \o RangesOf(Tail(ls))

RangesIn(t) == [i \in 1 .. Len(t.highs) |-> [start |-> t.starts[i], high |-> t.highs[i]]]

\* no constructor and no dm_table_add_target call of the parse failed
NoCallFailed(t) ==
    Msgs(t) \cap {"This message should never appear (constructor error)",
                  "Error adding target to table"} = {}

(***************************************************************************)
(* C1.  A non-empty content of N newline-terminated lines, each with a     *)
(* registered type, a succeeding constructor and a start equal to the      *)
(* running offset, makes dmfs_parse return a table of exactly these N      *)
(* ranges in order, whatever the length of the content.  (Stated for lines *)
(* of fewer than PAGE_SIZE - 1 bytes, pages all up to date, and a scratch  *)
(* page and table that could be allocated.)                                *)
(***************************************************************************)
C1_Input ==
    /\ ContentLines.rest = <<>>
    /\ ContentLines.lines # <<>>
    /\ \A i \in 1 .. Len(ContentLines.lines) :
            Len(ContentLines.lines[i]) + 1 < PAGE_SIZE - 1
    /\ Contiguous(ContentLines.lines, 0)
    /\ AllPagesUptodate

C1_AllLinesBecomeRanges ==
    \A p \in Procs :
        (/\ pc[p] = "parsed"
         /\ loc[p].t # NULL
         /\ C1_Input
         /\ NoCallFailed(tables[loc[p].t]))
        => /\ loc[p].table # NULL
           /\ RangesIn(tables[loc[p].table]) = RangesOf(ContentLines.lines)

Called(id) == Len(tables'[id].lines) = Len(tables[id].lines) + 1

\* the (num, str) of the call
TheCall(id) == tables'[id].lines[Len(tables'[id].lines)]

\* the table after a call that did nothing but record msg for the line
Rejected(t, call, msg) ==
    [t EXCEPT !.lines = Append(@, call),
              !.errors = Append(@, [num |-> call.num, msg |-> msg])]

HasStartAndSize(str) == ~Field(str, 1).nil /\ ~Field(str, 2).nil

(***************************************************************************)
(* C3.  A line with a start and a size whose start is not the expected     *)
(* next start: "Gap in table" is recorded for it, the table's ranges stay  *)
(* as they are, no type is resolved and nothing constructed; the page loop *)
(* goes on, and the expected start is the same for the lines after it.     *)
(***************************************************************************)
C3_GapStep ==
    \A id \in TableIds :
        (/\ Called(id)
         /\ HasStartAndSize(TheCall(id).str)
         /\ simple_strtoul(Field(TheCall(id).str, 1).s) # ExpectedStart(tables[id]))
        => /\ tables'[id] = Rejected(tables[id], TheCall(id), "Gap in table")
           /\ ExpectedStart(tables'[id]) = ExpectedStart(tables[id])
           /\ \A p \in Procs :
                (loc[p].t = id /\ pc[p] = "page") => pc'[p] \in {"page", "put"}

C3_GapLineRejected == [][C3_GapStep]_vars

\* a gap was recorded for a line and a later line was handed to the line parser
C3_Witness ==
    \E id \in TableIds :
        \E i \in 1 .. Len(tables[id].errors), j \in 1 .. Len(tables[id].lines) :
            /\ tables[id].errors[i].msg = "Gap in table"
            /\ tables[id].lines[j].num > tables[id].errors[i].num

(***************************************************************************)
(* C4.  A line that passes the start, size and gap checks and names a type *)
(* the registry does not resolve: "Target type unknown" is recorded, and   *)
(* no constructor, no destructor and no dm_put_target_type is called; the  *)
(* table does not grow.                                                    *)
(***************************************************************************)
C4_UnknownStep ==
    \A id \in TableIds :
        (/\ Called(id)
         /\ HasStartAndSize(TheCall(id).str)
         /\ simple_strtoul(Field(TheCall(id).str, 1).s) = ExpectedStart(tables[id])
         /\ ~Field(TheCall(id).str, 3).nil
         /\ Field(TheCall(id).str, 3).s \notin Registered)
        => tables'[id] = Rejected(tables[id], TheCall(id), "Target type unknown")

C4_UnknownTypeRejected == [][C4_UnknownStep]_vars

\* an unknown type was reported in a parse without constructor call or handle release
C4_Witness ==
    \E id \in TableIds :
        /\ "Target type unknown" \in Msgs(tables[id])
        /\ tables[id].nctr = 0
        /\ tables[id].nput = 0

(***************************************************************************)
(* C5.  Reassembly transparency: a byte stream fed to dmfs_parse_page in   *)
(* two or more consecutive chunks, with the same line buffer and fill      *)
(* position, hands the same (line number, line text) pairs to              *)
(* dmfs_parse_line, and records the same error, as the stream fed as one   *)
(* chunk.                                                                  *)
(***************************************************************************)
CutDone == asm.fed = Len(asm.chunks) \/ asm.cut.rv # 0

C5_ReassemblyTransparent ==
    (asm.on /\ CutDone /\ asm.whole_fed)
    => /\ asm.cut.lines = asm.whole.lines
       /\ asm.cut.errors = asm.whole.errors
       /\ asm.cut.rv = asm.whole.rv

\* the same for streams cut into exactly two chunks
C5_TwoChunks ==
    Len(asm.chunks) = 2 => C5_ReassemblyTransparent

(***************************************************************************)
(* C6.  When dmfs_parse_page meets a line too long for the line buffer:    *)
(* "Line too long" is recorded with the current line number and            *)
(* dmfs_parse_page fails; from then on nothing is handed to                *)
(* dmfs_parse_line in that parse; dmfs_parse discards the table being      *)
(* built and returns no table.                                             *)
(***************************************************************************)
TooLong(t) == "Line too long" \in Msgs(t)

C6_Aborted ==
    \A id \in TableIds :
        TooLong(tables[id])
        => /\ tables[id].state # "complete"
           /\ dmi_table # id
           /\ \A p \in Procs :
                loc[p].t = id
                => /\ pc[p] \in {"parse_error", "parsed", "up"}
                   /\ pc[p] # "parse_error"
                        => loc[p].table = NULL /\ tables[id].state = "discarded"

C6_Step ==
    /\ \A p \in Procs :
        (pc[p] = "page" /\ pc'[p] = "parse_error")
        => tables'[loc[p].t] =
              [tables[loc[p].t] EXCEPT
                  !.errors = Append(@, [num |-> loc[p].num, msg |-> "Line too long"])]
    /\ \A id \in TableIds :
        TooLong(tables[id]) => tables'[id].lines = tables[id].lines

C6_LineTooLongAborts == []C6_Aborted /\ [][C6_Step]_vars

\* a content with a line longer than a page, behind a line that was parsed:
\* dmfs_parse has returned after "Line too long"
C6_Witness ==
    \E p \in Procs :
        /\ pc[p] = "parsed"
        /\ loc[p].t # NULL
        /\ TooLong(tables[loc[p].t])
        /\ tables[loc[p].t].lines # <<>>
        /\ \E i \in 1 .. Len(ContentLines.lines) :
                Len(ContentLines.lines[i]) + 1 > PAGE_SIZE

(***************************************************************************)
(* C7.  If a parse recorded at least one error, then, once dmfs_parse has  *)
(* returned, it has returned no table and every context constructed in     *)
(* that parse has been destructed: as many destructor calls as successful  *)
(* constructor calls.                                                      *)
(***************************************************************************)
C7_ErrorDiscardsAll ==
    \A p \in Procs :
        (Returned(p) /\ loc[p].t # NULL /\ tables[loc[p].t].errors # <<>>)
        => /\ loc[p].table = NULL
           /\ tables[loc[p].t].state = "discarded"
           /\ tables[loc[p].t].nctx = tables[loc[p].t].ndtr

\* a parse that appended two ranges and recorded an error has returned
C7_Witness ==
    \E p \in Procs :
        /\ Returned(p)
        /\ loc[p].t # NULL
        /\ tables[loc[p].t].errors # <<>>
        /\ Len(tables[loc[p].t].highs) >= 2
        /\ tables[loc[p].t].ndtr >= 2

(***************************************************************************)
(* C8.  A close that runs no parse (handle not opened for writing) or      *)
(* whose parse yields no table leaves dmi->table as it was and discards no *)
(* table the owner has; dmi->table only ever refers to a table that        *)
(* dm_table_complete accepted.                                             *)
(***************************************************************************)
\* the step changes dmi->table or discards the table it refers to
TouchesActive ==
    \/ dmi_table' # dmi_table
    \/ dmi_table # NULL /\ tables'[dmi_table] # tables[dmi_table]

C8_Step ==
    /\ TouchesActive
        => \E p \in Procs :
              /\ pc'[p] # pc[p]
              /\ f_mode[p] = "w"
              /\ pc[p] \in {"parsed", "set"}
              /\ loc[p].table # NULL
    /\ \A p \in Procs :
        (pc[p] = "idle" /\ f_mode[p] # "w" /\ pc'[p] # pc[p])
        => pc'[p] = "done" /\ UNCHANGED <<sem, tables, dmi_table, loc>>
    /\ \A p \in Procs :
        (pc[p] = "parsed" /\ loc[p].table = NULL /\ pc'[p] # pc[p])
        => pc'[p] = "up" /\ UNCHANGED <<tables, dmi_table>>

C8_ActiveWasCompleted ==
    dmi_table # NULL
    => /\ dmi_table \in TableIds
       /\ tables[dmi_table].highs # <<>>
       /\ tables[dmi_table].errors = <<>>
       /\ tables[dmi_table].state \in {"complete", "discarded"}

C8_FailedCloseKeepsTable == []C8_ActiveWasCompleted /\ [][C8_Step]_vars

\* an active table is in place, and a later parse that built a table of its
\* own has returned none
C8_Witness ==
    \E p \in Procs :
        /\ pc[p] = "up"
        /\ loc[p].t # NULL
        /\ loc[p].table = NULL
        /\ dmi_table # NULL
        /\ tables[dmi_table].state = "complete"

(***************************************************************************)
(* C9.  In every state, the intermediate states of dmfs_release included,  *)
(* dmi->table does not refer to a table that has been discarded.           *)
(***************************************************************************)
C9_ActiveNeverDiscarded ==
    dmi_table # NULL => tables[dmi_table].state # "discarded"

(***************************************************************************)
(* C10.  At most one process is between down(&dmi->sem) and up(&dmi->sem), *)
(* and a process that has acquired the semaphore goes on to release it: it *)
(* never stops for good while holding it.                                  *)
(***************************************************************************)
\* the process has passed down() and not yet up()
Holds(p) ==
    pc[p] \in {"parse", "find", "page", "put", "finish", "broken", "parse_error",
               "parsed", "set", "up", "oops"}

C10_MutualExclusion ==
    /\ Cardinality({ p \in Procs : Holds(p) }) <= 1
    /\ sem = 1 - Cardinality({ p \in Procs : Holds(p) })

C10_SemaphoreSerializes ==
    /\ C10_MutualExclusion
    /\ \A p \in Procs : Holds(p) => ~Crashed(p)

(***************************************************************************)
(* C11.  A parse of a non-empty content of length L visits at most         *)
(* ceil(L / PAGE_CACHE_SIZE) chunk indices, a content shorter than one     *)
(* page included, and comes back from dmfs_parse with a table or without:  *)
(* the loop is never at an index behind the last page of the file, and the *)
(* process never stops inside dmfs_parse.                                  *)
(***************************************************************************)
\* the process is inside the loop of dmfs_parse
InLoop(p) == pc[p] \in {"find", "page", "put"}

C11_LoopWithinFile ==
    \A p \in Procs : InLoop(p) => loc[p].index < NPages(i_size)

C11_ParseCompletes ==
    /\ C11_LoopWithinFile
    /\ \A p \in Procs : ~Crashed(p)

\* the same for contents of one page or more, with every page in the page cache
C11_WholePages ==
    (i_size >= PAGE_CACHE_SIZE /\ AllPagesUptodate) => C11_ParseCompletes

(***************************************************************************)
(* C12.  For a content of length L, dmfs_parse hands the chunks            *)
(* 0 .. ceil(L / PAGE_CACHE_SIZE) - 1 to dmfs_parse_page, in this order    *)
(* and each once: the full chunks with length PAGE_CACHE_SIZE, a shorter   *)
(* final chunk with length L mod PAGE_CACHE_SIZE; no byte at an offset of  *)
(* L or more is handed over.  (Stated for pages that are all up to date    *)
(* and a parse that reached the end of its loop.)                          *)
(***************************************************************************)
\* the (index, len) of the chunks of a content of length len, in order
ChunksOf(len) ==
    [i \in 1 .. NPages(len) |->
        [index |-> i - 1,
         len   |-> IF i * PAGE_CACHE_SIZE <= len THEN PAGE_CACHE_SIZE
                   ELSE len % PAGE_CACHE_SIZE]]

IsPrefix(s, t) == Len(s) <= Len(t) /\ s = SubSeq(t, 1, Len(s))

C12_EveryChunkOnce ==
    AllPagesUptodate
    => \A p \in Procs :
        /\ IsPrefix(loc[p].fed, ChunksOf(i_size))
        /\ pc[p] = "finish" => loc[p].fed = ChunksOf(i_size)

\* what is handed over is always a run of chunks of the file from chunk 0 on
C12_AscendingWithinFile ==
    AllPagesUptodate => \A p \in Procs : IsPrefix(loc[p].fed, ChunksOf(i_size))

\* a content of whole pages only, or of less than a page, is handed over whole
C12_NoShorterRest ==
    \A p \in Procs :
        (/\ pc[p] = "finish"
         /\ AllPagesUptodate
         /\ (i_size < PAGE_CACHE_SIZE \/ i_size % PAGE_CACHE_SIZE = 0))
        => loc[p].fed = ChunksOf(i_size)

(***************************************************************************)
(* C13.  A chunk whose page is not in the page cache, or whose page is     *)
(* there and holds zero bytes only, adds no range, records no error (no    *)
(* "Line too long" either) and does not end the parse: dmfs_parse goes on  *)
(* to the chunks behind it.                                                *)
(***************************************************************************)
\* the page of chunk index is in the page cache, up to date, and all zero bytes
ZeroChunk(index) ==
    /\ index < NPages(i_size)
    /\ pagecache[index] = "uptodate"
    /\ \A k \in 1 .. PAGE_CACHE_SIZE : PageByte(index, k) = NUL

C13_HoleIsBlank ==
    \A p \in Procs :
        /\ pc[p] = "parse_error" => ~ZeroChunk(loc[p].index)
        /\ ~Crashed(p)

\* the part about zero-filled chunks alone
C13_ZeroChunkIsBlank ==
    \A p \in Procs : pc[p] = "parse_error" => ~ZeroChunk(loc[p].index)

\* a chunk whose page is missing leaves the table as it is
C13_MissingStep ==
    \A p \in Procs :
        (pc[p] \in {"find", "put"} /\ pc'[p] # pc[p] /\ pagecache[loc[p].index] = "missing")
        => UNCHANGED tables

C13_MissingAddsNothing == [][C13_MissingStep]_vars

(***************************************************************************)
(* C14.  Each call of dmfs_parse_line either appends exactly one range and *)
(* records no error, or appends no range and records exactly one error,    *)
(* for the line's number.  The error is that of the first check that fails *)
(* in the order: start token missing, size token missing, start not the    *)
(* expected start, type token missing, type unknown, constructor failure,  *)
(* append failure.                                                         *)
(***************************************************************************)
\* the message of the first of the checks on the tokens that the line fails
\* against table t, or "none"
FirstTokenFailure(t, str) ==
    CASE Field(str, 1).nil -> "No start argument"
      [] ~Field(str, 1).nil /\ Field(str, 2).nil -> "No size argument"
      [] /\ HasStartAndSize(str)
         /\ simple_strtoul(Field(str, 1).s) # ExpectedStart(t) -> "Gap in table"
      [] /\ HasStartAndSize(str)
         /\ simple_strtoul(Field(str, 1).s) = ExpectedStart(t)
         /\ Field(str, 3).nil -> "No target type"
      [] /\ HasStartAndSize(str)
         /\ simple_strtoul(Field(str, 1).s) = ExpectedStart(t)
         /\ ~Field(str, 3).nil
         /\ Field(str, 3).s \notin Registered -> "Target type unknown"
      [] OTHER -> "none"

\* the call appended one range and recorded nothing
AppendedOne(t, t2) ==
    /\ Len(t2.highs) = Len(t.highs) + 1
    /\ SubSeq(t2.highs, 1, Len(t.highs)) = t.highs
    /\ t2.errors = t.errors

\* the call appended no range and recorded msg, and nothing else, for line num
RecordedOne(t, t2, num, msg) ==
    /\ t2.highs = t.highs
    /\ t2.errors = Append(t.errors, [num |-> num, msg |-> msg])

C14_Step ==
    \A id \in TableIds :
        Called(id)
        => LET t == tables[id]
               t2 == tables'[id]
               num == TheCall(id).num
               first == FirstTokenFailure(t, TheCall(id).str)
           IN  IF first # "none" THEN RecordedOne(t, t2, num, first)
               ELSE \/ AppendedOne(t, t2) /\ t2.nctx = t.nctx + 1
                    \/ /\ t2.nctx = t.nctx
                       /\ RecordedOne(t, t2, num,
                            "This message should never appear (constructor error)")
                    \/ /\ t2.nctx = t.nctx + 1
                       /\ RecordedOne(t, t2, num, "Error adding target to table")

C14_OneOutcomePerLine == [][C14_Step]_vars

\* a parse appended a range and then rejected, with "Gap in table", a line
\* that has no type token either; a constructor failed in it as well
C14_Witness ==
    \E id \in TableIds :
        LET t == tables[id]
        IN  /\ t.highs # <<>>
            /\ \E i \in 1 .. Len(t.errors), j \in 1 .. Len(t.lines) :
                    /\ t.errors[i].msg = "Gap in table"
                    /\ t.lines[j].num = t.errors[i].num
                    /\ Field(t.lines[j].str, 3).nil
            /\ "This message should never appear (constructor error)" \in Msgs(t)

(***************************************************************************)
(* C15.  Registry handles are balanced against ranges: after every call of *)
(* dmfs_parse_line the handles dm_get_target_type gave out in the parse    *)
(* and dm_put_target_type has not taken back are as many as the ranges of  *)
(* the table.  A line that fails after its type was resolved (constructor  *)
(* failure, append failure) acquires one handle and releases one; a line   *)
(* that fails before, or whose type is unknown, acquires and releases      *)
(* none; a line that appends a range acquires one and releases none.       *)
(***************************************************************************)
C15_Balanced ==
    \A id \in TableIds :
        tables[id].nget - tables[id].nput = num_targets(tables[id])

\* the message the call recorded, or "none"
Recorded(t, t2) ==
    IF Len(t2.errors) = Len(t.errors) THEN "none"
    ELSE t2.errors[Len(t2.errors)].msg

AfterResolution ==
    {"This message should never appear (constructor error)",
     "Error adding target to table"}

C15_Step ==
    \A id \in TableIds :
        Called(id)
        => LET t == tables[id]
               t2 == tables'[id]
               msg == Recorded(t, t2)
           IN  /\ msg \in AfterResolution
                    => t2.nget = t.nget + 1 /\ t2.nput = t.nput + 1
               /\ msg = "none"
                    => t2.nget = t.nget + 1 /\ t2.nput = t.nput
               /\ msg \notin AfterResolution \cup {"none"}
                    => t2.nget = t.nget /\ t2.nput = t.nput

C15_HandlesBalanced == []C15_Balanced /\ [][C15_Step]_vars

\* a parse that appended a range, released the handle of a line that failed
\* after its type was resolved, and rejected a line before resolving its type
C15_Witness ==
    \E id \in TableIds :
        /\ num_targets(tables[id]) = 1
        /\ tables[id].nget = 2
        /\ tables[id].nput = 1
        /\ Msgs(tables[id]) \cap AfterResolution # {}
        /\ Msgs(tables[id]) \ AfterResolution # {}

(***************************************************************************)
(* C16.  After every call of dmfs_parse_line the live contexts of the      *)
(* parse are exactly those owned by ranges of the table.  When the         *)
(* constructor succeeds and dm_table_add_target fails, the destructor is   *)
(* called exactly once and "Error adding target to table" is recorded;     *)
(* when the constructor fails, no destructor is called and "This message   *)
(* should never appear (constructor error)" is recorded; when the append   *)
(* succeeds, no destructor is called.                                      *)
(***************************************************************************)
C16_LiveAreOwned ==
    \A id \in TableIds :
        tables[id].state = "building"
        => tables[id].nctx - tables[id].ndtr = num_targets(tables[id])

C16_Step ==
    \A id \in TableIds :
        Called(id)
        => LET t == tables[id]
               t2 == tables'[id]
               msg == Recorded(t, t2)
               constructed == t2.nctx - t.nctx
               destructed == t2.ndtr - t.ndtr
           IN  /\ t2.nctr - t.nctr \in {0, 1}
               /\ constructed \in {0, 1}
               /\ (constructed = 1 /\ ~AppendedOne(t, t2))
                    => destructed = 1 /\ msg = "Error adding target to table"
               /\ (t2.nctr = t.nctr + 1 /\ constructed = 0)
                    => /\ destructed = 0
                       /\ msg = "This message should never appear (constructor error)"
               /\ AppendedOne(t, t2) => destructed = 0 /\ constructed = 1
               /\ t2.nctr = t.nctr => destructed = 0

C16_ContextsOwned == []C16_LiveAreOwned /\ [][C16_Step]_vars

\* a table being built holds a range, after an append that failed in the
\* same parse: two contexts constructed, one destructed
C16_Witness ==
    \E id \in TableIds :
        /\ tables[id].state = "building"
        /\ num_targets(tables[id]) = 1
        /\ tables[id].nctx = 2
        /\ tables[id].ndtr = 1
        /\ "Error adding target to table" \in Msgs(tables[id])

\* a constructor failed in a parse that holds a range: one context, none destructed
C16_ConstructorFailed ==
    \E id \in TableIds :
        /\ tables[id].state = "building"
        /\ num_targets(tables[id]) = 1
        /\ tables[id].nctr = 2
        /\ tables[id].nctx = 1
        /\ tables[id].ndtr = 0

(***************************************************************************)
(* C17.  Every range appended to the table has high >= start and           *)
(* high - start + 1 equal to the size its line declares: a line whose size *)
(* is 0, or whose start + size - 1 does not fit offset_t, never has a      *)
(* range appended for it.                                                  *)
(***************************************************************************)
\* the number a token of decimal digits denotes
RECURSIVE Decimal(_, _)
Decimal(s, result) ==
    IF s = <<>> \/ Head(s) \notin Digit THEN result
    ELSE Decimal(Tail(s), result * 10 + DigitVal(Head(s)))

C17_Step ==
    \A id \in TableIds :
        (Called(id) /\ AppendedOne(tables[id], tables'[id]))
        => LET str == TheCall(id).str
               start == Decimal(Field(str, 1).s, 0)
               size == Decimal(Field(str, 2).s, 0)
               high == tables'[id].highs[Len(tables'[id].highs)]
           IN  /\ size >= 1
               /\ start + size - 1 < Pow2(BITS_PER_LONG)
               /\ high >= start
               /\ high - start + 1 = size

C17_RangeHasDeclaredSize == [][C17_Step]_vars

\* the same for the lines that declare a size of at least 1 that fits
C17_FittingStep ==
    \A id \in TableIds :
        (/\ Called(id)
         /\ AppendedOne(tables[id], tables'[id])
         /\ Decimal(Field(TheCall(id).str, 2).s, 0) >= 1
         /\ Decimal(Field(TheCall(id).str, 1).s, 0)
              + Decimal(Field(TheCall(id).str, 2).s, 0) - 1 < Pow2(BITS_PER_LONG))
        => C17_Step

C17_FittingRanges == [][C17_FittingStep]_vars

(***************************************************************************)
(* C18.  Bytes behind the last newline of the content are never passed to  *)
(* dmfs_parse_line and record no error: a content yields the same ranges,  *)
(* the same errors and the same return of dmfs_parse as the content cut    *)
(* just behind its last newline.  (Stated for an unterminated rest shorter *)
(* than the line buffer, pages all up to date, and constructors and        *)
(* appends that succeed.)                                                  *)
(***************************************************************************)
\* the content up to and including its last newline
Truncated == SubSeq(content, 1, Len(content) - Len(ContentLines.rest))

\* what a parse of the content that has returned did, next to dmfs_parse(bytes)
SameOutcome(p, bytes) ==
    LET t == tables[loc[p].t]
        o == dmfs_parse(bytes)
    IN  /\ t.highs = o.t.highs
        /\ t.starts = o.t.starts
        /\ t.errors = o.t.errors
        /\ t.lines = o.t.lines
        /\ (loc[p].table # NULL) = o.returned

\* the parse of process p ran on up-to-date pages with no call failing, and returned
PlainParseReturned(p) ==
    /\ pc[p] = "parsed"
    /\ loc[p].t # NULL
    /\ AllPagesUptodate
    /\ NoCallFailed(tables[loc[p].t])

C18_TailDropped ==
    \A p \in Procs :
        (PlainParseReturned(p) /\ Len(ContentLines.rest) < PAGE_SIZE - 1)
        => SameOutcome(p, Truncated)

\* dmfs_parse, step by step and as a function, gives the same for the content itself
C18_SameAsFunction ==
    \A p \in Procs : PlainParseReturned(p) => SameOutcome(p, content)

\* the rest is never passed to dmfs_parse_line: every line passed ends at a newline
C18_OnlyTerminatedLines ==
    \A p \in Procs :
        (loc[p].t # NULL /\ AllPagesUptodate)
        => Len(tables[loc[p].t].lines) <= Len(ContentLines.lines)

(***************************************************************************)
(* C19.  "Line too long" is recorded only when the line buffer has filled  *)
(* to PAGE_SIZE - 1 bytes without a newline: when the copy that brings the *)
(* line to PAGE_SIZE - 1 bytes ends on a newline, the line is terminated   *)
(* and handed to dmfs_parse_line, and no "Line too long" is recorded.      *)
(***************************************************************************)
\* the byte of the mapped page that dmfs_copy copied last
LastCopied(p) == PageByte(loc[p].index, loc[p].end - loc[p].len)

C19_TooLongOnlyWithoutNewline ==
    \A p \in Procs : pc[p] = "parse_error" => LastCopied(p) # NL

(***************************************************************************)
(* C20.  Line buffer bounds, for a stream cut into chunks of any lengths:  *)
(* on entry to each dmfs_copy call the fill position is at most            *)
(* PAGE_SIZE - 2; every byte dmfs_copy writes, the terminator included,    *)
(* lands at an index between 0 and PAGE_SIZE - 2; and the stored fill      *)
(* position equals the number of bytes of the current unterminated line    *)
(* held in the buffer.                                                     *)
(***************************************************************************)
\* the bytes of the stream fed to the first line buffer so far
FedBytes == SubSeq(asm.stream, 1, Sum(SubSeq(asm.chunks, 1, asm.fed)))

\* the fill position is in range, and the last byte of the buffer is never written
C20_WithinBuffer ==
    asm.on
    => /\ asm.cut.tmpl <= PAGE_SIZE - 2
       /\ asm.cut.tmp[PAGE_SIZE] = GARBAGE
       /\ asm.whole.tmpl <= PAGE_SIZE - 2
       /\ asm.whole.tmp[PAGE_SIZE] = GARBAGE

\* between two chunks the fill position is the length of the unterminated rest
C20_FillIsLineLength ==
    (asm.on /\ asm.cut.rv = 0)
    => asm.cut.tmpl = Len(SplitLines(FedBytes, <<>>, <<>>).rest)

C20_LineBufferBounds == C20_WithinBuffer /\ C20_FillIsLineLength

=============================================================================
